---- MODULE Spec2Model ----
(***************************************************************************)
(* EduQuiz: the quiz scoring and answer-classification engine of the       *)
(* Results component (src/components/Results.js).                          *)
(*                                                                         *)
(* The component receives the props `questions` and `userAnswers`, runs    *)
(* calculateScore (a forEach over the questions that accumulates           *)
(* totalScore), reduces the questions to totalPossibleScore, derives       *)
(* scorePercentage and classifies every answer with                        *)
(* isAnswerCompletelyCorrect.  One forEach iteration is one step of the    *)
(* model; the rest of the render is one step.                              *)
(***************************************************************************)
EXTENDS Integers, Sequences, FiniteSets, TLC

\* Bounds of the model.
NumOptions == 6        \* options of a choice question: indices 0..NumOptions-1
MaxQuestions == 2      \* longest question list and longest answer list

(***************************************************************************)
(* JavaScript values that reach the engine.  An answer slot is null, a     *)
(* number or an array of numbers (ResultsProps.userAnswers); reading past  *)
(* the end of an array, or a field the generator omitted, is undefined.    *)
(***************************************************************************)
Null == [tag |-> "null", n |-> 0, a |-> <<>>]
Undefined == [tag |-> "undefined", n |-> 0, a |-> <<>>]
Num(x) == [tag |-> "number", n |-> x, a |-> <<>>]
Arr(s) == [tag |-> "array", n |-> 0, a |-> s]

\* Array.isArray(v)
IsArray(v) == v.tag = "array"

\* Faulty variant of IsNullish: the test for undefined is forgotten.
IsNullishNullOnly(v) == v.tag = "null"

\* v === null || v === undefined
IsNullish(v) == v.tag = "null" \/ v.tag = "undefined"

\* v is truthy, for the values a correctAnswerIndices field can hold
\* (an array, also an empty one, is truthy; undefined is not).
Truthy(v) == v.tag = "array"

\* x === y.  Two arrays are distinct objects and never identical.
StrictEquals(x, y) ==
    /\ x.tag = y.tag
    /\ x.tag # "array"
    /\ x.tag = "number" => x.n = y.n

\* v[0]: the first element of a non-empty array, undefined for an empty
\* array and for a number.
ElementAt0(v) == IF IsArray(v) /\ Len(v.a) > 0 THEN Num(v.a[1]) ELSE Undefined

\* new Set(array)
SetOf(s) == {s[i] : i \in 1..Len(s)}

\* userAnswers[index] for a zero-based index (here: position i = index + 1).
AnswerAt(answers, i) == IF i \in 1..Len(answers) THEN answers[i] ELSE Undefined

(***************************************************************************)
(* QuizQuestion: questionType, correctAnswerIndices?, numericalAnswer?.    *)
(* The question text, the option texts and the explanation play no part    *)
(* in scoring; a choice question has NumOptions options.                   *)
(***************************************************************************)
SINGLE_CHOICE == "SINGLE_CHOICE"
MULTIPLE_CHOICE == "MULTIPLE_CHOICE"
NUMERICAL == "NUMERICAL"
SUBJECTIVE == "SUBJECTIVE"

QuizQuestion(type, indices, numAns) ==
    [questionType |-> type, correctAnswerIndices |-> indices, numericalAnswer |-> numAns]

\* The array lo, lo+1, .., hi.
Range(lo, hi) == [i \in 1..(hi - lo + 1) |-> lo + i - 1]

NumericalValues == {41, 42}

\* Questions the generator can return, well-formed and not.
QuestionSet ==
    {QuizQuestion(SINGLE_CHOICE, c, Undefined) :
        c \in {Undefined, Arr(<<>>), Arr(<<1>>)}}
    \cup {QuizQuestion(MULTIPLE_CHOICE, c, Undefined) :
        c \in {Undefined, Arr(<<>>), Arr(<<0>>), Arr(<<0, 2>>),
               Arr(Range(0, NumOptions - 1))}}
    \cup {QuizQuestion(NUMERICAL, Undefined, v) : v \in {Undefined, Num(42)}}
    \cup {QuizQuestion(SUBJECTIVE, Undefined, Undefined)}

\* Values of an answer slot: number[] | number | null.
AnswerSet ==
    {Null} \cup {Num(v) : v \in NumericalValues}
    \cup {Arr(s) : s \in {<<>>, <<0>>, <<1>>, <<0, 1>>, <<0, 2>>, <<0, 0>>,
                          Range(0, NumOptions - 2), Range(0, NumOptions - 1)}}

SeqsUpTo(S, n) == UNION {[1..k -> S] : k \in 0..n}

(***************************************************************************)
(* calculateScore: the body of the forEach callback, by question kind.     *)
(***************************************************************************)
\* Faulty variant of scoreSingleChoice: no negative marking.
scoreSingleChoiceNoPenalty(q, userAnswer) ==
    IF /\ IsArray(userAnswer)
       /\ Truthy(q.correctAnswerIndices)
       /\ StrictEquals(ElementAt0(userAnswer), ElementAt0(q.correctAnswerIndices))
    THEN 4
    ELSE 0

scoreSingleChoice(q, userAnswer) ==
    IF /\ IsArray(userAnswer)
       /\ Truthy(q.correctAnswerIndices)
       /\ StrictEquals(ElementAt0(userAnswer), ElementAt0(q.correctAnswerIndices))
    THEN 4
    ELSE -1

\* Faulty variant of scoreNumerical: a mismatch is penalised like a wrong choice.
scoreNumericalWithPenalty(q, userAnswer) ==
    IF userAnswer.tag = "number" /\ StrictEquals(userAnswer, q.numericalAnswer)
    THEN 4
    ELSE -1

scoreNumerical(q, userAnswer) ==
    IF userAnswer.tag = "number" /\ StrictEquals(userAnswer, q.numericalAnswer)
    THEN 4
    ELSE 0

\* Faulty variant of scoreMultipleChoice: anyWrongSelected is not consulted.
scoreMultipleChoiceIgnoringWrong(q, userAnswer) ==
    IF IsArray(userAnswer) /\ Truthy(q.correctAnswerIndices)
    THEN LET userSelections == SetOf(userAnswer.a)
             correctSelections == SetOf(q.correctAnswerIndices.a)
             correctSelectedCount ==
                 Cardinality({ans \in userSelections : ans \in correctSelections})
         IN  IF /\ correctSelectedCount = Cardinality(correctSelections)
                /\ Cardinality(userSelections) = Cardinality(correctSelections)
             THEN 4
             ELSE correctSelectedCount
    ELSE 0

\* Faulty variant of scoreMultipleChoice: all or nothing, no partial marking.
scoreMultipleChoiceNoPartial(q, userAnswer) ==
    IF IsArray(userAnswer) /\ Truthy(q.correctAnswerIndices)
    THEN IF SetOf(userAnswer.a) = SetOf(q.correctAnswerIndices.a) THEN 4 ELSE 0
    ELSE 0

\* Faulty variant of scoreMultipleChoice: the full marks of an exact answer
\* are forgotten, every answer without a wrong pick earns its count.
scoreMultipleChoiceCountingPicks(q, userAnswer) ==
    IF IsArray(userAnswer) /\ Truthy(q.correctAnswerIndices)
    THEN LET userSelections == SetOf(userAnswer.a)
             correctSelections == SetOf(q.correctAnswerIndices.a)
         IN  IF \E ans \in userSelections : ans \notin correctSelections
             THEN 0
             ELSE Cardinality(userSelections)
    ELSE 0

scoreMultipleChoice(q, userAnswer) ==
    IF IsArray(userAnswer) /\ Truthy(q.correctAnswerIndices)
    THEN LET userSelections == SetOf(userAnswer.a)
             correctSelections == SetOf(q.correctAnswerIndices.a)
             anyWrongSelected == \E ans \in userSelections : ans \notin correctSelections
             correctSelectedCount ==
                 Cardinality({ans \in userSelections : ans \in correctSelections})
         IN  IF ~anyWrongSelected
             THEN IF /\ correctSelectedCount = Cardinality(correctSelections)
                     /\ Cardinality(userSelections) = Cardinality(correctSelections)
                  THEN 4
                  ELSE correctSelectedCount
             ELSE 0
    ELSE 0

\* Faulty variant of scoreQuestion: an answered SUBJECTIVE question falls
\* into the negative marking.
scoreQuestionMarkingSubjective(q, userAnswer) ==
    IF IsNullish(userAnswer) THEN 0
    ELSE CASE q.questionType = SINGLE_CHOICE -> scoreSingleChoice(q, userAnswer)
           [] q.questionType = NUMERICAL -> scoreNumerical(q, userAnswer)
           [] q.questionType = MULTIPLE_CHOICE -> scoreMultipleChoice(q, userAnswer)
           [] OTHER -> -1

\* What one forEach iteration adds to totalScore.
scoreQuestion(q, userAnswer) ==
    IF IsNullish(userAnswer) THEN 0
    ELSE CASE q.questionType = SINGLE_CHOICE -> scoreSingleChoice(q, userAnswer)
           [] q.questionType = NUMERICAL -> scoreNumerical(q, userAnswer)
           [] q.questionType = MULTIPLE_CHOICE -> scoreMultipleChoice(q, userAnswer)
           [] OTHER -> 0

\* Faulty variant of reducePossible: every question counts, SUBJECTIVE too.
reducePossibleCountingAll(qs) == 4 * Len(qs)

\* questions.reduce((acc, q) => q.questionType !== SUBJECTIVE ? acc + 4 : acc, 0)
RECURSIVE reducePossible(_)
reducePossible(qs) ==
    IF qs = <<>> THEN 0
    ELSE LET q == qs[Len(qs)]
             acc == reducePossible(SubSeq(qs, 1, Len(qs) - 1))
         IN  IF q.questionType # SUBJECTIVE THEN acc + 4 ELSE acc

\* Faulty variant of MathRound: Math.floor(x / y).
MathFloor(x, y) == x \div y

\* Math.round(x / y) for y > 0: the nearest integer, a tie going up.
MathRound(x, y) == (2 * x + y) \div (2 * y)

\* Faulty variant of Max: the clamp is forgotten.
MaxForgotten(x, y) == y

\* Math.max(x, y)
Max(x, y) == IF x >= y THEN x ELSE y

\* totalPossibleScore > 0 ? Math.round((Math.max(0, score) / totalPossibleScore) * 100) : 0
percentageOf(s, possible) ==
    IF possible > 0 THEN MathRound(Max(0, s) * 100, possible) ELSE 0

\* Faulty variant of isAnswerCompletelyCorrect: for MULTIPLE_CHOICE the sizes
\* of the two sets are not compared.
isAnswerCompletelyCorrectNoSizeCheck(question, userAnswer) ==
    IF IsNullish(userAnswer) THEN FALSE
    ELSE CASE question.questionType = SINGLE_CHOICE ->
                IF IsArray(userAnswer) /\ Truthy(question.correctAnswerIndices)
                THEN StrictEquals(ElementAt0(userAnswer),
                                  ElementAt0(question.correctAnswerIndices))
                ELSE FALSE
           [] question.questionType = NUMERICAL ->
                StrictEquals(userAnswer, question.numericalAnswer)
           [] question.questionType = MULTIPLE_CHOICE ->
                LET userSet == IF IsArray(userAnswer) THEN SetOf(userAnswer.a) ELSE {}
                    correctSet == IF Truthy(question.correctAnswerIndices)
                                  THEN SetOf(question.correctAnswerIndices.a)
                                  ELSE {}
                IN  \A item \in userSet : item \in correctSet
           [] OTHER -> FALSE

isAnswerCompletelyCorrect(question, userAnswer) ==
    IF IsNullish(userAnswer) THEN FALSE
    ELSE CASE question.questionType = SINGLE_CHOICE ->
                IF IsArray(userAnswer) /\ Truthy(question.correctAnswerIndices)
                THEN StrictEquals(ElementAt0(userAnswer),
                                  ElementAt0(question.correctAnswerIndices))
                ELSE FALSE
           [] question.questionType = NUMERICAL ->
                StrictEquals(userAnswer, question.numericalAnswer)
           [] question.questionType = MULTIPLE_CHOICE ->
                LET userSet == IF IsArray(userAnswer) THEN SetOf(userAnswer.a) ELSE {}
                    correctSet == IF Truthy(question.correctAnswerIndices)
                                  THEN SetOf(question.correctAnswerIndices.a)
                                  ELSE {}
                IN  IF Cardinality(userSet) # Cardinality(correctSet) THEN FALSE
                    ELSE \A item \in userSet : item \in correctSet
           [] OTHER -> FALSE

(***************************************************************************)
(* State of one render of Results.                                         *)
(***************************************************************************)
VARIABLES
    questions,           \* props.questions
    userAnswers,         \* props.userAnswers
    pc,                  \* "calculateScore" while the forEach runs, then "rendered"
    index,               \* number of questions the forEach has visited
    totalScore,          \* calculateScore's accumulator
    score,               \* const score = calculateScore()
    totalPossibleScore,  \* const totalPossibleScore
    scorePercentage,     \* const scorePercentage
    isCorrect,           \* isCorrect of renderAnswerResult, per question
    \* State of the App component.
    appState,            \* AppState
    viewMode,            \* ViewMode
    quizQuestions,       \* the question list handed to Quiz and Results
    appUserAnswers,      \* App's userAnswers, set by handleQuizComplete
    error,               \* string | null
    timerMinutes,        \* quizConfig?.timerMinutes || 0
    pending,             \* generation requests awaiting generateQuizFromContent
    requestCount,        \* generation requests started so far
    \* State of the Quiz component.
    currentQuestionIndex,
    quizUserAnswers,     \* Quiz's userAnswers
    currentSelection,
    timeLeft,            \* null, or the seconds left counted in half seconds
    \* State of the QuizConfigComponent, the configuration form.
    config,              \* its questionTypes, source and timerMinutes
    pdfDoc,              \* a PDF document is loaded
    isProcessing,
    fileTask,            \* the file being read, with the config its callback captured
    requested            \* the config of the last onStartQuizGeneration call

resultsVars == <<questions, userAnswers, pc, index, totalScore, score,
                 totalPossibleScore, scorePercentage, isCorrect>>

appVars == <<appState, viewMode, quizQuestions, appUserAnswers, error,
             timerMinutes, pending, requestCount>>

quizVars == <<currentQuestionIndex, quizUserAnswers, currentSelection, timeLeft>>

formVars == <<config, pdfDoc, isProcessing, fileTask, requested>>

vars == <<resultsVars, appVars, quizVars, formVars>>

\* A timer setting of num/den minutes.
Minutes(num, den) == [num |-> num, den |-> den]

\* App before any request, Quiz not mounted.
AppIdle ==
    /\ appState = "UPLOAD"
    /\ viewMode = "quiz"
    /\ quizQuestions = <<>>
    /\ appUserAnswers = <<>>
    /\ error = Null
    /\ timerMinutes = Minutes(0, 60)
    /\ pending = {}
    /\ requestCount = 0

QuizUnmounted ==
    /\ currentQuestionIndex = 0
    /\ quizUserAnswers = <<>>
    /\ currentSelection = Null
    /\ timeLeft = Null

\* The part of a QuizConfig that is modelled.
QuizConfig(types, source, tm) ==
    [questionTypes |-> types, source |-> source, timerMinutes |-> tm]

\* No file is being read.
NoFile == [kind |-> "none", config |-> Null]

\* The configuration the form starts with: two question types, ten minutes.
DefaultConfig == QuizConfig(<<SINGLE_CHOICE, MULTIPLE_CHOICE>>, "document", Minutes(10, 1))

\* The form as it is first rendered.
FormIdle ==
    /\ config = DefaultConfig
    /\ pdfDoc = FALSE
    /\ isProcessing = FALSE
    /\ fileTask = NoFile
    /\ requested = Null

Init ==
    /\ questions \in SeqsUpTo(QuestionSet, MaxQuestions)
    /\ userAnswers \in SeqsUpTo(AnswerSet, MaxQuestions)
    /\ pc = "calculateScore"
    /\ index = 0
    /\ totalScore = 0
    /\ score = 0
    /\ totalPossibleScore = 0
    /\ scorePercentage = 0
    /\ isCorrect = <<>>
    /\ AppIdle
    /\ QuizUnmounted
    /\ FormIdle

\* Faulty variant of forEachCallback: an absent answer slot is filled in
\* with null in the list itself before it is scored.
forEachCallbackFillingSlots ==
    /\ pc = "calculateScore"
    /\ index < Len(questions)
    /\ totalScore' = totalScore
                     + scoreQuestion(questions[index + 1], AnswerAt(userAnswers, index + 1))
    /\ index' = index + 1
    /\ userAnswers' = IF index + 1 > Len(userAnswers)
                         THEN Append(userAnswers, Null)
                         ELSE userAnswers
    /\ UNCHANGED <<questions, pc, score, totalPossibleScore, scorePercentage, isCorrect>>
    /\ UNCHANGED <<appVars, quizVars, formVars>>

\* One iteration of questions.forEach((q, index) => ...) in calculateScore.
forEachCallback ==
    /\ pc = "calculateScore"
    /\ index < Len(questions)
    /\ totalScore' = totalScore
                     + scoreQuestion(questions[index + 1], AnswerAt(userAnswers, index + 1))
    /\ index' = index + 1
    /\ UNCHANGED <<questions, userAnswers, pc, score, totalPossibleScore,
                   scorePercentage, isCorrect>>
    /\ UNCHANGED <<appVars, quizVars, formVars>>

\* calculateScore returns; the component computes the displayed numbers and
\* renders one verdict per question.
Render ==
    /\ pc = "calculateScore"
    /\ index = Len(questions)
    /\ score' = totalScore
    /\ totalPossibleScore' = reducePossible(questions)
    /\ scorePercentage' = percentageOf(totalScore, reducePossible(questions))
    /\ isCorrect' = [i \in 1..Len(questions) |->
                        isAnswerCompletelyCorrect(questions[i], AnswerAt(userAnswers, i))]
    /\ pc' = "rendered"
    /\ UNCHANGED <<questions, userAnswers, index, totalScore>>
    /\ UNCHANGED <<appVars, quizVars, formVars>>

Next == forEachCallback \/ Render

Spec == Init /\ [][Next]_vars

(***************************************************************************)
(* The Quiz component (part_001) inside the App component (part_000).      *)
(* The user stays logged in; a handler runs as one step, its state updates *)
(* batched, and the effects of the render that follows are part of it.     *)
(***************************************************************************)
MaxQuizQuestions == 2   \* longest generated question list
NumQuizOptions == 2     \* options of a generated choice question
MaxTimerSeconds == 2    \* longest timer, in seconds
MaxRequests == 2        \* generation requests started in one behaviour

\* A generated question as Quiz reads it: its text, its kind and its
\* options. A text or a kind the provider left out is the empty string.
GeneratedQuestion(type, options) ==
    [question |-> "text", questionType |-> type, options |-> options]

\* Generated questions: the two choice kinds with their options, one choice
\* question that came without options, a numerical and a subjective one.
GeneratedQuestionSet ==
    {GeneratedQuestion(t, Arr(Range(0, NumQuizOptions - 1))) : t \in {SINGLE_CHOICE, MULTIPLE_CHOICE}}
    \cup {GeneratedQuestion(SINGLE_CHOICE, Undefined),
          GeneratedQuestion(NUMERICAL, Undefined),
          GeneratedQuestion(SUBJECTIVE, Undefined)}

\* What generateQuizFromContent can resolve to: a non-empty question list.
GeneratedQuizzes == SeqsUpTo(GeneratedQuestionSet, MaxQuizQuestions) \ {<<>>}

\* The items of a provider response: generated questions, one without its
\* text and one without its kind.
ResponseItems ==
    GeneratedQuestionSet
    \cup {[GeneratedQuestion(SINGLE_CHOICE, Arr(Range(0, NumQuizOptions - 1)))
              EXCEPT !.question = ""],
          [GeneratedQuestion(NUMERICAL, Undefined) EXCEPT !.questionType = ""]}

\* What the provider call ends in: an exception, JSON that is not an array,
\* or an array of items, which may be empty.
ProviderResponses ==
    {[thrown |-> TRUE, isArray |-> FALSE, items |-> <<>>],
     [thrown |-> FALSE, isArray |-> FALSE, items |-> <<>>]}
    \cup {[thrown |-> FALSE, isArray |-> TRUE, items |-> items] :
             items \in SeqsUpTo(ResponseItems, MaxQuizQuestions)}

\* q.question && q.questionType
HasTextAndType(q) == q.question # "" /\ q.questionType # ""

\* Faulty variant of generateQuizFromContent: the items are not filtered.
generateQuizFromContentUnfiltered(response) ==
    IF response.thrown \/ ~response.isArray \/ Len(response.items) = 0
        THEN [thrown |-> TRUE, questions |-> <<>>]
        ELSE [thrown |-> FALSE, questions |-> response.items]

\* generateQuizFromContent from the provider response on: it throws when the
\* call threw or the data is not a non-empty array, and returns the items
\* that have a text and a kind.
generateQuizFromContent(response) ==
    IF response.thrown \/ ~response.isArray \/ Len(response.items) = 0
        THEN [thrown |-> TRUE, questions |-> <<>>]
        ELSE [thrown |-> FALSE, questions |-> SelectSeq(response.items, HasTextAndType)]

\* The timer input takes any number of minutes, so a timer need not be a
\* whole number of seconds. timeLeft is kept in half seconds: its n is the
\* number of seconds times HalfSeconds, and one second is HalfSeconds.
HalfSeconds == 2

\* Timer settings of the configuration form: 0 for no timer, and every
\* number of half seconds up to MaxTimerSeconds, in minutes (1.5 seconds
\* is the input 0.025).
TimerMinutesSet ==
    {Minutes(k, 60 * HalfSeconds) : k \in 0..(MaxTimerSeconds * HalfSeconds)}

\* Faulty variant of InitialTimeLeft: the test for 0 is missing.
InitialTimeLeftWithoutTest(tm) == Num((tm.num * 60 * HalfSeconds) \div tm.den)

\* useState(timerMinutes > 0 ? timerMinutes * 60 : null)
InitialTimeLeft(tm) ==
    IF tm.num > 0 THEN Num((tm.num * 60 * HalfSeconds) \div tm.den) ELSE Null

\* arr[i] = v on a copy of arr, i counted from 0; writing past the end
\* leaves holes, which read as undefined.
ArrayAssign(arr, i, v) ==
    IF i < Len(arr)
        THEN [arr EXCEPT ![i + 1] = v]
        ELSE arr \o [j \in 1..(i - Len(arr)) |-> Undefined] \o <<v>>

\* arr.includes(v)
Includes(arr, v) == \E j \in 1..Len(arr) : arr[j] = v

\* arr.filter(x => x !== v)
FilterOut(arr, v) == SelectSeq(arr, LAMBDA x : x # v)

\* Quiz is on screen.
QuizMounted == appState = "QUIZ" /\ viewMode = "quiz"

\* const currentQuestion = questions[currentQuestionIndex]
currentQuestion == quizQuestions[currentQuestionIndex + 1]

\* const isLastQuestion = currentQuestionIndex === questions.length - 1
isLastQuestion == currentQuestionIndex = Len(quizQuestions) - 1

\* The first render of a Quiz: its four useState initial values.
MountQuiz(qs, tm) ==
    /\ currentQuestionIndex' = 0
    /\ quizUserAnswers' = [i \in 1..Len(qs) |-> Null]
    /\ currentSelection' = Null
    /\ timeLeft' = InitialTimeLeft(tm)

\* Quiz leaves the screen and its state is discarded.
UnmountQuiz ==
    /\ currentQuestionIndex' = 0
    /\ quizUserAnswers' = <<>>
    /\ currentSelection' = Null
    /\ timeLeft' = Null

\* App.handleQuizComplete
handleQuizComplete(answers) ==
    /\ appUserAnswers' = answers
    /\ appState' = "RESULTS"
    /\ UNCHANGED <<viewMode, quizQuestions, error, timerMinutes, pending, requestCount>>

\* Faulty variant of TimeoutAnswers: the selection on screen is recorded
\* before the answers are handed over.
TimeoutAnswersWithPending(answers, i, selection) ==
    IF IsNullish(selection) THEN answers ELSE ArrayAssign(answers, i, selection)

\* handleQuizEnd: the answers handed to onQuizComplete when the time is up.
TimeoutAnswers(answers, i, selection) == answers

\* setTimeLeft(t => t - 1)
Decremented(t) == Num(t.n - HalfSeconds)

\* The setInterval callback, one second after the last render, and the
\* effect of the render it causes: at 0 or below handleQuizEnd is called.
setIntervalCallback ==
    /\ QuizMounted
    /\ timeLeft.tag = "number"
    /\ timeLeft.n > 0
    /\ timeLeft' = Decremented(timeLeft)
    /\ IF Decremented(timeLeft).n <= 0
           THEN handleQuizComplete(TimeoutAnswers(quizUserAnswers, currentQuestionIndex,
                                                  currentSelection))
           ELSE UNCHANGED appVars
    /\ UNCHANGED <<resultsVars, formVars, currentQuestionIndex, quizUserAnswers, currentSelection>>

\* Faulty variant of ToggledSelection: a clicked option is always appended.
ToggledSelectionAppending(selection, value) ==
    Arr((IF IsArray(selection) THEN selection.a ELSE <<>>) \o <<value>>)

\* The MULTIPLE_CHOICE branch of handleSelection: the option is removed when
\* it is selected and appended when it is not.
ToggledSelection(selection, value) ==
    LET current == IF IsArray(selection) THEN selection.a ELSE <<>>
    IN  IF Includes(current, value)
            THEN Arr(FilterOut(current, value))
            ELSE Arr(current \o <<value>>)

\* A click on the option button with index value; the buttons exist for a
\* choice question that has options.
handleSelection(value) ==
    /\ QuizMounted
    /\ currentQuestion.questionType \in {SINGLE_CHOICE, MULTIPLE_CHOICE}
    /\ Truthy(currentQuestion.options)
    /\ value \in 0..(Len(currentQuestion.options.a) - 1)
    /\ currentSelection' = IF currentQuestion.questionType = SINGLE_CHOICE
                               THEN Arr(<<value>>)
                               ELSE ToggledSelection(currentSelection, value)
    /\ UNCHANGED <<resultsVars, formVars, appVars, currentQuestionIndex, quizUserAnswers, timeLeft>>

\* Texts the number input can hold: empty, or a decimal numeral.
NumberInputTexts == {"", "41", "42"}

\* parseFloat on the numerals of NumberInputTexts.
parseFloat(text) == CASE text = "41" -> Num(41)
                      [] text = "42" -> Num(42)

\* onChange of the number input of a NUMERICAL question.
onChange(text) ==
    /\ QuizMounted
    /\ currentQuestion.questionType = NUMERICAL
    /\ text \in NumberInputTexts
    /\ currentSelection' = IF text = "" THEN Null ELSE parseFloat(text)
    /\ UNCHANGED <<resultsVars, formVars, appVars, currentQuestionIndex, quizUserAnswers, timeLeft>>

\* Faulty variant of processNextQuestion: the selection is recorded on a
\* skip as well.
processNextQuestionRecordingAlways(skipped) ==
    LET newAnswers == ArrayAssign(quizUserAnswers, currentQuestionIndex, currentSelection)
    IN  /\ quizUserAnswers' = newAnswers
        /\ currentSelection' = Null
        /\ IF isLastQuestion
               THEN /\ handleQuizComplete(newAnswers)
                    /\ UNCHANGED currentQuestionIndex
               ELSE /\ currentQuestionIndex' = currentQuestionIndex + 1
                    /\ UNCHANGED appVars
        /\ UNCHANGED <<resultsVars, formVars, timeLeft>>

\* processNextQuestion(skipped)
processNextQuestion(skipped) ==
    LET newAnswers == IF skipped
                          THEN quizUserAnswers
                          ELSE ArrayAssign(quizUserAnswers, currentQuestionIndex,
                                           currentSelection)
    IN  /\ quizUserAnswers' = newAnswers
        /\ currentSelection' = Null
        /\ IF isLastQuestion
               THEN /\ handleQuizComplete(newAnswers)
                    /\ UNCHANGED currentQuestionIndex
               ELSE /\ currentQuestionIndex' = currentQuestionIndex + 1
                    /\ UNCHANGED appVars
        /\ UNCHANGED <<resultsVars, formVars, timeLeft>>

\* The test of handleNext, and of the Next button's disabled attribute.
NothingSelected(selection) ==
    \/ StrictEquals(selection, Null)
    \/ (IsArray(selection) /\ Len(selection.a) = 0)

\* handleNext: an alert and nothing else when nothing is selected.
handleNext ==
    /\ QuizMounted
    /\ IF NothingSelected(currentSelection)
           THEN UNCHANGED vars
           ELSE processNextQuestion(FALSE)

\* handleSkip
handleSkip ==
    /\ QuizMounted
    /\ processNextQuestion(TRUE)

NextQuiz ==
    \/ \E value \in 0..(NumQuizOptions - 1) : handleSelection(value)
    \/ \E text \in NumberInputTexts : onChange(text)
    \/ handleNext
    \/ handleSkip
    \/ setIntervalCallback

\* A Quiz on screen with a generated question list and a timer setting.
InitQuiz ==
    /\ questions = <<>> /\ userAnswers = <<>>
    /\ pc = "unmounted" /\ index = 0 /\ totalScore = 0 /\ score = 0
    /\ totalPossibleScore = 0 /\ scorePercentage = 0 /\ isCorrect = <<>>
    /\ appState = "QUIZ"
    /\ viewMode = "quiz"
    /\ quizQuestions \in GeneratedQuizzes
    /\ appUserAnswers = <<>>
    /\ error = Null
    /\ timerMinutes \in TimerMinutesSet
    /\ pending = {}
    /\ requestCount = 1
    /\ currentQuestionIndex = 0
    /\ quizUserAnswers = [i \in 1..Len(quizQuestions) |-> Null]
    /\ currentSelection = Null
    /\ timeLeft = InitialTimeLeft(timerMinutes)
    /\ FormIdle

SpecQuiz == InitQuiz /\ [][NextQuiz]_vars

\* The interval of a mounted Quiz fires as long as it is set.
SpecQuizFair == SpecQuiz /\ WF_vars(setIntervalCallback)

\* The message of a caught generation error.
ErrorMessage == [tag |-> "string", n |-> 0, a |-> <<>>]

\* The views of the header; solver and profile behave as strategy does for
\* what is modelled here.
ViewModes == {"quiz", "strategy"}

\* handleStartQuizGeneration up to its await: the Generate button of the
\* configuration form, which is on screen in the UPLOAD state.
handleStartQuizGeneration(quizConfig) ==
    /\ appState = "UPLOAD"
    /\ viewMode = "quiz"
    /\ requestCount < MaxRequests
    /\ error' = Null
    /\ timerMinutes' = quizConfig
    /\ appState' = "GENERATING"
    /\ viewMode' = "quiz"
    /\ pending' = pending \cup {requestCount + 1}
    /\ requestCount' = requestCount + 1
    /\ UNCHANGED <<resultsVars, formVars, quizQuestions, appUserAnswers, quizVars>>

\* handleStartQuizGeneration after its await, generateQuizFromContent having
\* resolved to a non-empty list. A Quiz already on screen keeps its state and
\* gets the new list; its render throws when the new list has no question at
\* currentQuestionIndex, and React then removes the whole tree.
resolveGeneration(id, qs) ==
    /\ appState # "(render error)"
    /\ id \in pending
    /\ pending' = pending \ {id}
    /\ quizQuestions' = qs
    /\ IF QuizMounted
           THEN IF currentQuestionIndex < Len(qs)
                    THEN appState' = "QUIZ" /\ UNCHANGED quizVars
                    ELSE appState' = "(render error)" /\ UnmountQuiz
           ELSE /\ appState' = "QUIZ"
                /\ IF viewMode = "quiz"
                       THEN MountQuiz(qs, timerMinutes)
                       ELSE UnmountQuiz
    /\ UNCHANGED <<resultsVars, formVars, viewMode, appUserAnswers, error, timerMinutes, requestCount>>

\* Faulty variant of rejectGeneration: the error message is not set.
rejectGenerationSilently(id) ==
    /\ appState # "(render error)"
    /\ id \in pending
    /\ pending' = pending \ {id}
    /\ appState' = "UPLOAD"
    /\ UnmountQuiz
    /\ UNCHANGED <<resultsVars, formVars, viewMode, quizQuestions, appUserAnswers, error,
                   timerMinutes, requestCount>>

\* handleStartQuizGeneration after its await, in its catch: the request
\* failed or the list was empty.
rejectGeneration(id) ==
    /\ appState # "(render error)"
    /\ id \in pending
    /\ pending' = pending \ {id}
    /\ error' = ErrorMessage
    /\ appState' = "UPLOAD"
    /\ UnmountQuiz
    /\ UNCHANGED <<resultsVars, formVars, viewMode, quizQuestions, appUserAnswers, timerMinutes,
                   requestCount>>

\* handleStartQuizGeneration from its await on, for the response the
\* provider gave to request id.
awaitGeneration(id, response) ==
    LET result == generateQuizFromContent(response)
    IN  IF ~result.thrown /\ Len(result.questions) > 0
            THEN resolveGeneration(id, result.questions)
            ELSE rejectGeneration(id)

\* The four assignments of handleRestart.
Restarted ==
    /\ appState' = "UPLOAD"
    /\ quizQuestions' = <<>>
    /\ appUserAnswers' = <<>>
    /\ error' = Null
    /\ viewMode' = "quiz"
    /\ UnmountQuiz
    /\ UNCHANGED <<resultsVars, formVars, timerMinutes, pending, requestCount>>

\* handleRestart: the button of the Results page.
handleRestart ==
    /\ appState = "RESULTS"
    /\ viewMode = "quiz"
    /\ Restarted

\* handleLogout: the button of the header, on every page.
handleLogout ==
    /\ appState # "(render error)"
    /\ Restarted

\* setViewMode(mode): the view buttons of the header.
setViewMode(mode) ==
    /\ appState # "(render error)"
    /\ mode # viewMode
    /\ viewMode' = mode
    /\ IF mode = "quiz" /\ appState = "QUIZ"
           THEN MountQuiz(quizQuestions, timerMinutes)
           ELSE UnmountQuiz
    /\ UNCHANGED <<resultsVars, formVars, appState, quizQuestions, appUserAnswers, error,
                   timerMinutes, pending, requestCount>>

NextApp ==
    \/ \E quizConfig \in TimerMinutesSet : handleStartQuizGeneration(quizConfig)
    \/ \E id \in 1..MaxRequests, response \in ProviderResponses :
            awaitGeneration(id, response)
    \/ handleRestart
    \/ handleLogout
    \/ \E mode \in ViewModes : setViewMode(mode)
    \/ NextQuiz

\* The App as it is first rendered, no Results on screen.
InitApp ==
    /\ questions = <<>> /\ userAnswers = <<>>
    /\ pc = "unmounted" /\ index = 0 /\ totalScore = 0 /\ score = 0
    /\ totalPossibleScore = 0 /\ scorePercentage = 0 /\ isCorrect = <<>>
    /\ AppIdle
    /\ QuizUnmounted
    /\ FormIdle

SpecApp == InitApp /\ [][NextApp]_vars

(***************************************************************************)
(* The configuration form, QuizConfigComponent (FileUpload.tsx). A call of  *)
(* onStartQuizGeneration makes the App replace the form by the loader; the  *)
(* form that is shown later is a new one.                                   *)
(***************************************************************************)
\* Object.values(QuestionType): one checkbox each.
QuestionTypes == {SINGLE_CHOICE, MULTIPLE_CHOICE, NUMERICAL, SUBJECTIVE}

\* What can be typed into the timer input: the timer settings and a
\* negative number.
TimerInputs == TimerMinutesSet \cup {Minutes(-1, 1)}

\* Kinds of file that can be dropped.
FileKinds == {"image", "pdf", "other"}

\* The form is on screen.
FormOnScreen == requested = Null

\* renderConfigView is shown rather than renderInitialView.
ConfigView == pdfDoc \/ config.source = "pyq"

\* The toggle of handleQuestionTypeChange: the type is removed when it is
\* included and appended when it is not.
ToggledTypes(types, type) ==
    IF Includes(types, type) THEN FilterOut(types, type) ELSE types \o <<type>>

\* Faulty variant of AcceptedTypes: the new list is taken as it is.
AcceptedTypesUnchecked(newTypes, types) == newTypes

\* if (newTypes.length > 0) updateConfig(...) else alert(...)
AcceptedTypes(newTypes, types) == IF Len(newTypes) > 0 THEN newTypes ELSE types

\* handleQuestionTypeChange(type)
handleQuestionTypeChange(type) ==
    /\ FormOnScreen
    /\ ConfigView
    /\ config' = [config EXCEPT !.questionTypes =
                      AcceptedTypes(ToggledTypes(config.questionTypes, type),
                                    config.questionTypes)]
    /\ UNCHANGED <<resultsVars, appVars, quizVars, pdfDoc, isProcessing, fileTask, requested>>

\* Math.max(0, x) on a number of minutes.
MaxZero(tm) == IF tm.num >= 0 THEN tm ELSE Minutes(0, tm.den)

\* onChange of the timer input: updateConfig('timerMinutes', Math.max(0, ...))
onChangeTimer(value) ==
    /\ FormOnScreen
    /\ ConfigView
    /\ config' = [config EXCEPT !.timerMinutes = MaxZero(value)]
    /\ UNCHANGED <<resultsVars, appVars, quizVars, pdfDoc, isProcessing, fileTask, requested>>

\* The previous-year-questions button of the initial view.
selectPyq ==
    /\ FormOnScreen
    /\ ~ConfigView
    /\ config' = [config EXCEPT !.source = "pyq"]
    /\ UNCHANGED <<resultsVars, appVars, quizVars, pdfDoc, isProcessing, fileTask, requested>>

\* handleFile up to its first await or to reader.readAsDataURL; the file
\* input is disabled while isProcessing.
handleFile(kind) ==
    /\ FormOnScreen
    /\ ~ConfigView
    /\ ~isProcessing
    /\ config' = [config EXCEPT !.source = "document"]
    /\ IF kind = "other"
           THEN /\ pdfDoc' = FALSE
                /\ isProcessing' = FALSE
                /\ fileTask' = NoFile
           ELSE /\ isProcessing' = TRUE
                /\ fileTask' = [kind |-> kind,
                              config |-> IF kind = "image" THEN config ELSE Null]
                /\ UNCHANGED pdfDoc
    /\ UNCHANGED <<resultsVars, appVars, quizVars, requested>>

\* reader.onload of an image: the quiz is requested with the configuration
\* handleFile captured, SingleChoice questions only.
readerOnload ==
    /\ fileTask.kind = "image"
    /\ requested' = [fileTask.config EXCEPT !.questionTypes = <<SINGLE_CHOICE>>]
    /\ fileTask' = NoFile
    /\ UNCHANGED <<resultsVars, appVars, quizVars, config, pdfDoc, isProcessing>>

\* handleFile after its awaits for a PDF: loaded, or failed and resetState.
pdfLoaded(ok) ==
    /\ fileTask.kind = "pdf"
    /\ pdfDoc' = ok
    /\ isProcessing' = FALSE
    /\ fileTask' = NoFile
    /\ UNCHANGED <<resultsVars, appVars, quizVars, config, requested>>

\* resetView
resetView ==
    /\ FormOnScreen
    /\ ConfigView
    /\ ~isProcessing
    /\ pdfDoc' = FALSE
    /\ UNCHANGED <<resultsVars, appVars, quizVars, config, isProcessing, fileTask, requested>>

\* handleGenerate: the Generate button of the configuration view.
handleGenerate ==
    /\ FormOnScreen
    /\ ConfigView
    /\ ~isProcessing
    /\ isProcessing' = TRUE
    /\ requested' = config
    /\ UNCHANGED <<resultsVars, appVars, quizVars, config, pdfDoc, fileTask>>

\* The App shows the form again: a new QuizConfigComponent.
mountForm ==
    /\ ~FormOnScreen
    /\ config' = DefaultConfig
    /\ pdfDoc' = FALSE
    /\ isProcessing' = FALSE
    /\ fileTask' = NoFile
    /\ requested' = Null
    /\ UNCHANGED <<resultsVars, appVars, quizVars>>

NextForm ==
    \/ \E type \in QuestionTypes : handleQuestionTypeChange(type)
    \/ \E value \in TimerInputs : onChangeTimer(value)
    \/ selectPyq
    \/ \E kind \in FileKinds : handleFile(kind)
    \/ readerOnload
    \/ \E ok \in BOOLEAN : pdfLoaded(ok)
    \/ resetView
    \/ handleGenerate
    \/ mountForm

InitForm ==
    /\ questions = <<>> /\ userAnswers = <<>>
    /\ pc = "unmounted" /\ index = 0 /\ totalScore = 0 /\ score = 0
    /\ totalPossibleScore = 0 /\ scorePercentage = 0 /\ isCorrect = <<>>
    /\ AppIdle
    /\ QuizUnmounted
    /\ FormIdle

SpecForm == InitForm /\ [][NextForm]_vars

(***************************************************************************)
(* Vocabulary of the properties.                                           *)
(***************************************************************************)
\* The question and the answer slot the next forEach iteration reads.
CurQ == questions[index + 1]
CurA == AnswerAt(userAnswers, index + 1)

\* The step is one forEach iteration.
Visits == index' = index + 1

ValidIndices == 0..(NumOptions - 1)

\* A question as the data model describes it: exactly one valid correct index
\* for SingleChoice, one or more distinct valid indices for MultipleChoice, a
\* numericalAnswer for Numerical.
WellFormed(q) ==
    CASE q.questionType = SINGLE_CHOICE ->
            /\ IsArray(q.correctAnswerIndices)
            /\ Len(q.correctAnswerIndices.a) = 1
            /\ SetOf(q.correctAnswerIndices.a) \subseteq ValidIndices
      [] q.questionType = MULTIPLE_CHOICE ->
            /\ IsArray(q.correctAnswerIndices)
            /\ Len(q.correctAnswerIndices.a) >= 1
            /\ Cardinality(SetOf(q.correctAnswerIndices.a)) = Len(q.correctAnswerIndices.a)
            /\ SetOf(q.correctAnswerIndices.a) \subseteq ValidIndices
      [] q.questionType = NUMERICAL -> q.numericalAnswer.tag = "number"
      [] OTHER -> TRUE

\* An answer of the shape of its question's kind.
ShapeMatches(q, a) ==
    \/ a.tag = "null"
    \/ /\ q.questionType = SINGLE_CHOICE
       /\ IsArray(a) /\ Len(a.a) = 1 /\ SetOf(a.a) \subseteq ValidIndices
    \/ /\ q.questionType = MULTIPLE_CHOICE
       /\ IsArray(a) /\ Len(a.a) >= 1
       /\ Cardinality(SetOf(a.a)) = Len(a.a) /\ SetOf(a.a) \subseteq ValidIndices
    \/ /\ q.questionType = NUMERICAL /\ a.tag = "number"

\* A SingleChoice slot holds at most one selected index.
AtMostOneIndex(a) == IsArray(a) => Len(a.a) <= 1

\* The correct set of a choice question (empty when the field is missing).
CorrectSet(q) ==
    IF IsArray(q.correctAnswerIndices) THEN SetOf(q.correctAnswerIndices.a) ELSE {}

(***************************************************************************)
(* C1: a SingleChoice question (one correct index) adds +4 when the        *)
(* answer's sole selected index is the correct index, -1 for any other     *)
(* non-null answer (a wrong index, an empty selection, a number) and 0     *)
(* when the answer is null or absent.                                      *)
(***************************************************************************)
C1_Expected(q, a) ==
    IF IsNullish(a) THEN 0
    ELSE IF IsArray(a) /\ Len(a.a) = 1 /\ a.a[1] = q.correctAnswerIndices.a[1] THEN 4
    ELSE -1

C2_WrongPickScoresZero ==
    [][(/\ Visits
        /\ CurQ.questionType = MULTIPLE_CHOICE
        /\ IsArray(CurA)
        /\ \E i \in SetOf(CurA.a) : i \notin CorrectSet(CurQ))
       => totalScore' = totalScore]_vars

\* Scenario D: correct set {0,2}, answer {0,1}.
C2_Witness ==
    /\ index = 1
    /\ questions[1] = QuizQuestion(MULTIPLE_CHOICE, Arr(<<0, 2>>), Undefined)
    /\ Len(userAnswers) >= 1 /\ userAnswers[1] = Arr(<<0, 1>>)
    /\ totalScore = 0

(***************************************************************************)
(* C3: a MultipleChoice question whose submitted set has no wrong index    *)
(* adds +4 when the submitted set equals the correct set and otherwise     *)
(* the number of selected indices; a null answer adds 0.                   *)
(***************************************************************************)
C3_Expected(q, a) ==
    IF IsNullish(a) THEN 0
    ELSE IF SetOf(a.a) = CorrectSet(q) THEN 4
    ELSE Cardinality(SetOf(a.a))

C3_ExactOrPartialCredit ==
    [][(/\ Visits
        /\ CurQ.questionType = MULTIPLE_CHOICE
        /\ IsArray(CurQ.correctAnswerIndices)
        /\ \/ IsNullish(CurA)
           \/ IsArray(CurA) /\ SetOf(CurA.a) \subseteq CorrectSet(CurQ))
       => totalScore' - totalScore = C3_Expected(CurQ, CurA)]_vars

\* Scenario C and an exact match: correct set {0,2}, answers {0} and {0,2}.
C3_Witness ==
    /\ pc = "rendered"
    /\ Len(questions) = 2 /\ Len(userAnswers) = 2
    /\ \A i \in 1..2 : questions[i] = QuizQuestion(MULTIPLE_CHOICE, Arr(<<0, 2>>), Undefined)
    /\ userAnswers = <<Arr(<<0>>), Arr(<<0, 2>>)>>
    /\ score = 5

(***************************************************************************)
(* C4: a strict subset of a correct set of more than one member, with no   *)
(* wrong pick, adds strictly less than 4.                                  *)
(***************************************************************************)
C4_PartialCreditBelowFour ==
    [][(/\ Visits
        /\ CurQ.questionType = MULTIPLE_CHOICE
        /\ WellFormed(CurQ)
        /\ Cardinality(CorrectSet(CurQ)) > 1
        /\ IsArray(CurA)
        /\ SetOf(CurA.a) \subseteq CorrectSet(CurQ)
        /\ SetOf(CurA.a) # CorrectSet(CurQ))
       => totalScore' - totalScore < 4]_vars

(***************************************************************************)
(* C5: a Numerical question adds +4 when the submitted number equals       *)
(* numericalAnswer and 0 for a mismatch or a null answer; whatever the     *)
(* answer, a Numerical question never adds a negative amount.              *)
(***************************************************************************)
C5_Expected(q, a) ==
    IF a.tag = "number" /\ a.n = q.numericalAnswer.n THEN 4 ELSE 0

C5_NumericalScoring ==
    [][(Visits /\ CurQ.questionType = NUMERICAL)
       => /\ totalScore' >= totalScore
          /\ WellFormed(CurQ) => totalScore' - totalScore = C5_Expected(CurQ, CurA)]_vars

\* Scenario E: target 42, answers 42 and another number.
C5_Witness ==
    /\ pc = "rendered"
    /\ Len(questions) = 2 /\ Len(userAnswers) = 2
    /\ \A i \in 1..2 : questions[i] = QuizQuestion(NUMERICAL, Undefined, Num(42))
    /\ userAnswers = <<Num(42), Num(41)>>
    /\ score = 4

(***************************************************************************)
(* C6: for a fully valid input (well-formed questions, one answer slot     *)
(* per question, every answer of the shape of its question's kind) the     *)
(* displayed percentage is at least 0 and at most 100.                     *)
(***************************************************************************)
FullyValid ==
    /\ Len(userAnswers) = Len(questions)
    /\ \A i \in 1..Len(questions) :
          WellFormed(questions[i]) /\ ShapeMatches(questions[i], userAnswers[i])

C6_PercentageWithinBounds ==
    (pc = "rendered" /\ FullyValid) => (scorePercentage >= 0 /\ scorePercentage <= 100)

(***************************************************************************)
(* C7: the percentage is Math.round(max(0, earned) / possible * 100),      *)
(* the integer nearest to the quotient with a tie going up, when the       *)
(* total possible score is positive, and 0 when it is 0.                   *)
(***************************************************************************)
C7_PercentageFormula ==
    pc = "rendered" =>
        LET earned == IF score > 0 THEN score ELSE 0
            p == totalPossibleScore
        IN  /\ p > 0 => /\ 2 * p * scorePercentage <= 200 * earned + p
                        /\ 200 * earned + p < 2 * p * (scorePercentage + 1)
            /\ p = 0 => scorePercentage = 0
            /\ p >= 0

\* 1 of 8 is 12.5 per cent, displayed as 13.
C7_Witness ==
    /\ pc = "rendered"
    /\ score = 1 /\ totalPossibleScore = 8 /\ scorePercentage = 13

FitAnswers(answers, n) == [i \in 1..n |-> IF i <= Len(answers) THEN answers[i] ELSE Null]

RECURSIVE SumOfContributions(_, _)
SumOfContributions(qs, answers) ==
    IF qs = <<>> THEN 0
    ELSE SumOfContributions(SubSeq(qs, 1, Len(qs) - 1), answers)
         + scoreQuestion(qs[Len(qs)], answers[Len(qs)])

IsChoice(q) == q.questionType \in {SINGLE_CHOICE, MULTIPLE_CHOICE}

Irregular(q, a) ==
    \/ IsChoice(q) /\ q.correctAnswerIndices.tag = "undefined"
    \/ q.questionType = NUMERICAL /\ q.numericalAnswer.tag = "undefined"
    \/ IsChoice(q) /\ a.tag = "number"
    \/ q.questionType = NUMERICAL /\ IsArray(a)
    \/ IsArray(a) /\ a.a = <<>>

C9_IrregularIsIncorrect ==
    (pc = "rendered" /\ Len(userAnswers) = Len(questions)) =>
        \A i \in 1..Len(questions) :
            Irregular(questions[i], userAnswers[i]) =>
                /\ ~isCorrect[i]
                /\ Len(questions) = 1 => score <= 0

(***************************************************************************)
(* C10: for a well-formed question, isAnswerCompletelyCorrect is true      *)
(* exactly when: SingleChoice, the selected index set is the singleton     *)
(* correct set; Numerical, the submitted number is numericalAnswer;        *)
(* MultipleChoice, the submitted set is the correct set.  It is false for  *)
(* every Subjective question and every null or absent answer, so a         *)
(* MultipleChoice answer with partial credit is not fully correct.         *)
(***************************************************************************)
C10_Expected(q, a) ==
    CASE IsNullish(a) -> FALSE
      [] ~IsNullish(a) /\ IsChoice(q) -> IsArray(a) /\ SetOf(a.a) = CorrectSet(q)
      [] ~IsNullish(a) /\ q.questionType = NUMERICAL ->
            a.tag = "number" /\ a.n = q.numericalAnswer.n
      [] OTHER -> FALSE

Slots == [i \in 1..Len(questions) |-> AnswerAt(userAnswers, i)]

AnsweredIncorrectly(q, a) ==
    /\ q.questionType = SINGLE_CHOICE
    /\ ~IsNullish(a)
    /\ ~(/\ IsArray(a) /\ Len(a.a) >= 1
         /\ IsArray(q.correctAnswerIndices) /\ Len(q.correctAnswerIndices.a) >= 1
         /\ a.a[1] = q.correctAnswerIndices.a[1])

PenalisedQuestions == {i \in 1..Len(questions) : AnsweredIncorrectly(questions[i], Slots[i])}

C11_NegativeOnlyBySingleChoice ==
    pc = "rendered" =>
        /\ score >= 0 - Cardinality(PenalisedQuestions)
        /\ PenalisedQuestions = {} => score >= 0

\* Two SingleChoice questions answered wrongly: the total is exactly -2.
C11_Witness ==
    /\ pc = "rendered"
    /\ Cardinality(PenalisedQuestions) = 2
    /\ score = -2

(***************************************************************************)
(* C12: a Subjective question changes nothing: a forEach iteration on it   *)
(* leaves totalScore unchanged whatever its answer slot holds, and the     *)
(* rendered earned score, possible score and percentage are those of the   *)
(* same lists with that question and its slot removed.                     *)
(***************************************************************************)
\* The sequence without its position i.
Without(seq, i) == [j \in 1..(Len(seq) - 1) |-> IF j < i THEN seq[j] ELSE seq[j + 1]]

C12_RenderedWithoutSubjective ==
    pc = "rendered" =>
        \A i \in 1..Len(questions) :
            questions[i].questionType = SUBJECTIVE =>
                LET qs == Without(questions, i)
                    earned == SumOfContributions(qs, Without(Slots, i))
                IN  /\ score = earned
                    /\ totalPossibleScore = reducePossible(qs)
                    /\ scorePercentage = percentageOf(earned, reducePossible(qs))

C12_SubjectiveChangesNothing ==
    /\ [][(Visits /\ CurQ.questionType = SUBJECTIVE) => totalScore' = totalScore]_vars
    /\ []C12_RenderedWithoutSubjective

\* Scenario F without its unanswered question: a correct SingleChoice and a
\* Subjective question whose slot holds a number.
C12_Witness ==
    /\ pc = "rendered"
    /\ questions = <<QuizQuestion(SINGLE_CHOICE, Arr(<<1>>), Undefined),
                     QuizQuestion(SUBJECTIVE, Undefined, Undefined)>>
    /\ userAnswers = <<Arr(<<1>>), Num(42)>>
    /\ score = 4 /\ totalPossibleScore = 4 /\ scorePercentage = 100

(***************************************************************************)
(* C13: the total possible score is 4 times the number of questions whose  *)
(* kind is not Subjective, for every list, the empty one included.         *)
(***************************************************************************)
C13_PossibleIsFourPerGraded ==
    pc = "rendered" =>
        totalPossibleScore
            = 4 * Cardinality({i \in 1..Len(questions) : questions[i].questionType # SUBJECTIVE})

C13_Witness ==
    /\ pc = "rendered"
    /\ Len(questions) = 2
    /\ questions[1].questionType = SUBJECTIVE
    /\ questions[2].questionType = NUMERICAL
    /\ totalPossibleScore = 4

(***************************************************************************)
(* C14: the raw score shown is the unclamped sum of the contributions:     *)
(* when the sum is negative the score shown is that negative number and    *)
(* the percentage shown is 0.                                              *)
(***************************************************************************)
C14_RawTotalUnclamped ==
    pc = "rendered" =>
        /\ score = SumOfContributions(questions, Slots)
        /\ score < 0 => scorePercentage = 0

C14_Witness ==
    /\ pc = "rendered"
    /\ score = -2 /\ totalPossibleScore = 8 /\ scorePercentage = 0

(***************************************************************************)
(* C17: scoring reads its inputs and nothing else: no step of the render   *)
(* changes the question list or the answer list, and what is rendered is   *)
(* determined by the two lists alone.                                      *)
(***************************************************************************)
C17_RenderedFromInputs ==
    pc = "rendered" =>
        /\ score = SumOfContributions(questions, Slots)
        /\ totalPossibleScore = reducePossible(questions)
        /\ scorePercentage = percentageOf(score, totalPossibleScore)
        /\ isCorrect = [i \in 1..Len(questions) |->
                            isAnswerCompletelyCorrect(questions[i], Slots[i])]

C17_ScoringIsPure ==
    /\ [][questions' = questions /\ userAnswers' = userAnswers]_vars
    /\ []C17_RenderedFromInputs

\* A render of two questions with only one answer slot, inputs as given.
C17_Witness ==
    /\ pc = "rendered"
    /\ Len(questions) = 2 /\ Len(userAnswers) = 1
    /\ questions[2].questionType = MULTIPLE_CHOICE
    /\ userAnswers[1] = Arr(<<0, 1>>)

(***************************************************************************)
(* Vocabulary of the Quiz properties.                                      *)
(***************************************************************************)
\* The option indices a question offers.
OptionIndices(q) == IF IsArray(q.options) THEN 0..(Len(q.options.a) - 1) ELSE {}

NoDuplicates(seq) == \A i, j \in 1..Len(seq) : seq[i] = seq[j] => i = j

\* The shape a recorded answer of a question of this kind may have.
SlotShape(q, a) ==
    CASE q.questionType = SUBJECTIVE -> a = Null
      [] q.questionType = SINGLE_CHOICE ->
            \/ a = Null
            \/ /\ IsArray(a) /\ Len(a.a) = 1
               /\ a.a[1] \in OptionIndices(q)
      [] q.questionType = MULTIPLE_CHOICE ->
            \/ a = Null
            \/ /\ IsArray(a) /\ Len(a.a) >= 1
               /\ NoDuplicates(a.a)
               /\ \A j \in 1..Len(a.a) : a.a[j] \in OptionIndices(q)
      [] q.questionType = NUMERICAL -> a = Null \/ a.tag = "number"

ShapedFor(qs, answers) ==
    /\ Len(answers) = Len(qs)
    /\ \A i \in 1..Len(qs) : SlotShape(qs[i], answers[i])

(***************************************************************************)
(* C16: for a fixed question list, whatever the user selects, types,       *)
(* confirms or skips and whenever the timer fires, every recorded answer   *)
(* has the shape of its question's kind: null for Subjective, null or one  *)
(* valid option index for SingleChoice, null or a non-empty duplicate-free *)
(* array of valid option indices for MultipleChoice, null or a number for  *)
(* Numerical; so have the answers handed to onQuizComplete.                *)
(***************************************************************************)
C16_RecordedAnswersHaveShape ==
    /\ ShapedFor(quizQuestions, quizUserAnswers)
    /\ appState = "RESULTS" => ShapedFor(quizQuestions, appUserAnswers)

\* A finished quiz with two MultipleChoice answers of one and two indices,
\* the second reached by selecting, deselecting and selecting again.
C16_Witness ==
    /\ appState = "RESULTS"
    /\ Len(quizQuestions) = 2
    /\ quizQuestions[1].questionType = MULTIPLE_CHOICE
    /\ quizQuestions[2].questionType = MULTIPLE_CHOICE
    /\ appUserAnswers = <<Arr(<<1>>), Arr(<<1, 0>>)>>

(***************************************************************************)
(* C18: when the timer reaches 0, onQuizComplete receives the answers      *)
(* recorded so far and nothing else: every answer confirmed with Next is   *)
(* in its slot, and the slot of the question on screen and of every later  *)
(* question is null, a pending selection included.                         *)
(***************************************************************************)
\* The step in which the countdown arrives at 0, or passes it.
TimeIsUp ==
    /\ QuizMounted
    /\ timeLeft' # timeLeft
    /\ timeLeft'.tag = "number" /\ timeLeft'.n <= 0

C18_TimeoutHandsOverConfirmedAnswers ==
    [][TimeIsUp =>
        /\ appState' = "RESULTS"
        /\ Len(appUserAnswers') = Len(quizQuestions)
        /\ \A i \in 1..Len(quizQuestions) :
              appUserAnswers'[i] = IF i <= currentQuestionIndex
                                       THEN quizUserAnswers[i]
                                       ELSE Null]_vars

\* The time ran out on the second question with a selection pending, after
\* the first answer had been confirmed.
C18_Witness ==
    /\ appState = "RESULTS"
    /\ timeLeft = Num(0)
    /\ currentQuestionIndex = 1
    /\ currentSelection = Arr(<<0>>)
    /\ appUserAnswers = <<Num(42), Null>>

(***************************************************************************)
(* C19: with timerMinutes = 0 there is no timer: timeLeft is null for the  *)
(* whole quiz and the quiz is completed only by Next or Skip on the last   *)
(* question.                                                               *)
(***************************************************************************)
C19_NoTimerWithZeroMinutes ==
    /\ [](timerMinutes.num = 0 => timeLeft = Null)
    /\ [][(timerMinutes.num = 0 /\ appState' # appState) =>
            /\ isLastQuestion
            /\ handleNext \/ handleSkip]_vars

C19_Witness ==
    /\ appState = "RESULTS"
    /\ timerMinutes.num = 0
    /\ timeLeft = Null
    /\ Len(quizQuestions) = 2
    /\ currentQuestionIndex = 1

(***************************************************************************)
(* C20: Skip leaves null in the slot of the current question whatever is   *)
(* selected, clears the selection, and moves to the next question or, on   *)
(* the last one, completes the quiz; Next with a null or empty selection   *)
(* changes neither the question index nor the recorded answers.            *)
(***************************************************************************)
C20_SkipStep ==
    handleSkip =>
        /\ quizUserAnswers' = [quizUserAnswers EXCEPT ![currentQuestionIndex + 1] = Null]
        /\ currentSelection' = Null
        /\ IF currentQuestionIndex + 1 = Len(quizQuestions)
               THEN /\ appState' = "RESULTS"
                    /\ appUserAnswers' = quizUserAnswers'
               ELSE /\ currentQuestionIndex' = currentQuestionIndex + 1
                    /\ appState' = "QUIZ"

C20_BlockedNextStep ==
    (handleNext /\ (currentSelection = Null \/ currentSelection = Arr(<<>>))) =>
        UNCHANGED <<currentQuestionIndex, quizUserAnswers, appState, appUserAnswers>>

C15_AnswersAlignedWithQuestions ==
    appState = "RESULTS" => ShapedFor(quizQuestions, appUserAnswers)

(***************************************************************************)
(* C21: the configured list of question types is never empty, nor is the   *)
(* list of a configuration handed to onStartQuizGeneration, and a toggle   *)
(* of the only remaining type leaves the configuration unchanged.          *)
(***************************************************************************)
C21_TypesNonEmpty ==
    /\ Len(config.questionTypes) >= 1
    /\ requested # Null => Len(requested.questionTypes) >= 1

C21_LastTypeStays ==
    \A type \in QuestionTypes :
        (handleQuestionTypeChange(type) /\ config.questionTypes = <<type>>)
            => config' = config

C21_QuestionTypesNeverEmpty == []C21_TypesNonEmpty /\ [][C21_LastTypeStays]_vars

\* Only Subjective is left, after the two initial types were removed, and a
\* quiz has been requested with it.
C21_Witness ==
    /\ config.questionTypes = <<SUBJECTIVE>>
    /\ requested # Null
    /\ requested.questionTypes = <<SUBJECTIVE>>

(***************************************************************************)
(* C22: for a question that carries its answer (a choice question at least *)
(* one correct index, a Numerical one a numericalAnswer) and any answer    *)
(* value, a verdict of fully correct comes with a contribution of exactly  *)
(* 4 to the total.                                                         *)
(***************************************************************************)
CarriesAnswer(q) ==
    CASE q.questionType \in {SINGLE_CHOICE, MULTIPLE_CHOICE} ->
            IsArray(q.correctAnswerIndices) /\ Len(q.correctAnswerIndices.a) >= 1
      [] q.questionType = NUMERICAL -> q.numericalAnswer.tag = "number"
      [] OTHER -> TRUE

C22_FullyCorrectEarnsFour ==
    [][(Visits /\ CarriesAnswer(CurQ) /\ isAnswerCompletelyCorrect(CurQ, CurA))
            => totalScore' - totalScore = 4]_vars

\* A MultipleChoice question answered with exactly its two correct options
\* after a correct Numerical one: both marked fully correct, 4 points each.
C22_Witness ==
    /\ pc = "rendered"
    /\ Len(questions) = 2
    /\ questions[2].questionType = MULTIPLE_CHOICE
    /\ questions[2].correctAnswerIndices = Arr(<<0, 2>>)
    /\ AnswerAt(userAnswers, 2) = Arr(<<0, 2>>)
    /\ questions[1].questionType = NUMERICAL
    /\ isCorrect = <<TRUE, TRUE>>
    /\ score = 8

(***************************************************************************)
(* C23: the App enters QUIZ only from GENERATING, so a request that        *)
(* completes after a restart or a logout returned the App to UPLOAD does   *)
(* not start a quiz, and a request whose questions are shown is the one    *)
(* the user started last.                                                  *)
(***************************************************************************)
C23_EntersQuizFromGenerating ==
    (appState # "QUIZ" /\ appState' = "QUIZ") => appState = "GENERATING"

C23_ShowsLatestRequest ==
    (appState' = "QUIZ" /\ pending' # pending) => pending \ pending' = {requestCount}

C23_QuizOnlyFromGenerating ==
    [][C23_EntersQuizFromGenerating /\ C23_ShowsLatestRequest]_vars

(***************************************************************************)
(* C24: while the App is in QUIZ or RESULTS the question list is not empty *)
(* and each of its questions has a text and a kind: items of the provider  *)
(* response that lack either never get into it.                            *)
(***************************************************************************)
C24_QuestionsNonEmptyAndFiltered ==
    appState \in {"QUIZ", "RESULTS"} =>
        /\ Len(quizQuestions) >= 1
        /\ \A i \in 1..Len(quizQuestions) :
              quizQuestions[i].question # "" /\ quizQuestions[i].questionType # ""

\* The Results page of a quiz of two questions while a second request,
\* started after a logout, is still pending.
C24_Witness ==
    /\ appState = "RESULTS"
    /\ Len(quizQuestions) = 2
    /\ requestCount = 2
    /\ pending = {2}

(***************************************************************************)
(* C25: a generation request that fails (the provider throws, returns no   *)
(* array or an empty one, or all its items are filtered out) leaves the    *)
(* App in UPLOAD with an error message and is not pending any more, so it  *)
(* never starts a quiz; the start of a request and handleRestart set the   *)
(* error to null.                                                          *)
(***************************************************************************)
FailedResponse(response) ==
    \/ response.thrown
    \/ ~response.isArray
    \/ \A i \in 1..Len(response.items) :
          response.items[i].question = "" \/ response.items[i].questionType = ""

C25_FailureStep ==
    \A id \in pending, response \in ProviderResponses :
        (FailedResponse(response) /\ awaitGeneration(id, response)) =>
            /\ appState' = "UPLOAD"
            /\ error' # Null
            /\ id \notin pending'

C25_ErrorCleared ==
    /\ (\E quizConfig \in TimerMinutesSet : handleStartQuizGeneration(quizConfig))
            => error' = Null
    /\ handleRestart => error' = Null

C25_FailureReturnsToUpload == [][C25_FailureStep /\ C25_ErrorCleared]_vars

\* The only request failed: the form is shown with the error message.
C25_Witness ==
    /\ appState = "UPLOAD"
    /\ error = ErrorMessage
    /\ requestCount = 1
    /\ pending = {}

(***************************************************************************)
(* C26: with timerMinutes > 0, in a Quiz that stays mounted, timeLeft      *)
(* starts at 60 * timerMinutes, goes down by exactly 1 per tick and is     *)
(* never below 0; whatever the user does the quiz is completed, and        *)
(* onQuizComplete is called once, by the timeout or by the last question.  *)
(***************************************************************************)
\* timeLeft is a number of seconds that is not negative.
C26_NeverBelowZero ==
    timerMinutes.num > 0 => (timeLeft.tag = "number" /\ timeLeft.n >= 0)

\* A tick takes exactly one second off.
C26_OnePerTick ==
    (timeLeft' # timeLeft) =>
        /\ timeLeft.tag = "number" /\ timeLeft'.tag = "number"
        /\ timeLeft'.n = timeLeft.n - HalfSeconds

\* The handed-over answers and the Results page stay as the one call of
\* onQuizComplete left them.
C26_CalledOnce ==
    appState = "RESULTS" => UNCHANGED <<appState, appUserAnswers>>

\* 60 * timerMinutes seconds, in half seconds.
C26_StartsAtSixtyTimes ==
    (timerMinutes.num > 0 /\ appState = "QUIZ" /\ currentQuestionIndex = 0
        /\ quizUserAnswers = [i \in 1..Len(quizQuestions) |-> Null]
        /\ currentSelection = Null
        /\ timeLeft.n * timerMinutes.den = 60 * HalfSeconds * timerMinutes.num)
    \/ timerMinutes.num = 0

C26_Completes == (timerMinutes.num > 0) ~> (appState = "RESULTS")

C26_TimerCountsDownToCompletion ==
    /\ C26_StartsAtSixtyTimes
    /\ []C26_NeverBelowZero
    /\ [][C26_OnePerTick /\ C26_CalledOnce]_vars
    /\ C26_Completes

====
